---- MODULE Spec2Model ----
(***************************************************************************)
(* Model of the two acquisition drivers of the media retriever:            *)
(*   src/processor/torrent_series_retriever.py  (driver "processor":       *)
(*       series and films, read from media_config.json)                    *)
(*   src/torrent_series_retriever.py            (driver "root":            *)
(*       series only, class Serie, read from series_config.json)           *)
(* A run is sequential: load the catalog, then for every entry compute the *)
(* missing episodes, and for every missing episode walk the quality list,  *)
(* query the search provider, take a candidate and hand it to qBittorrent. *)
(* The environment (configuration file, library database, metadata         *)
(* provider, search provider, qBittorrent) answers nondeterministically.   *)
(***************************************************************************)
EXTENDS Integers, Sequences, FiniteSets, TLC

(* ------------------------------ bounds -------------------------------- *)
\* number of distinct (season, episode) keys the providers can report
MaxKeys == 3
\* length of the quality list walked per unit (6 in the root driver and for
\* films, 93 in the processor's series list)
MaxTiers == 2
\* longest candidate list the search provider returns
MaxCands == 2
\* depth at which the interpreter ends search_tpb's recursion on HTTP 429
\* (sys.getrecursionlimit(), 1000 by default)
RecursionLimit == 4
\* most series entries in a catalog
MaxSeries == 2
\* most film entries in a catalog
MaxFilms == 1
MaxPages == 2

(* --------------------------- value domains ---------------------------- *)
Drivers == {"processor", "root"}

\* the n-th episode key: (1,1), (1,2), (2,1), (2,2), (3,1), ...
KeyOf(n) == <<((n - 1) \div 2) + 1, ((n - 1) % 2) + 1>>

EpisodeKeys == {KeyOf(n) : n \in 1..MaxKeys}

\* "no episode": the unit is a film, or no unit has been started
NoEp == <<0, 0>>

\* ordering of (season, episode) tuples, as Python compares tuples
Less(a, b) == a[1] < b[1] \/ (a[1] = b[1] /\ a[2] < b[2])

\* candidate names the provider can return: an empty name, apibay's
\* placeholder for an empty result, an episode release of another show, an
\* episode release of the searched show
Names == {"", "No results returned", "Other S01E01", "Show S01E01"}

Seeders == {1, 2}

Candidate == [name : Names, seeders : Seeders]

CandLists == UNION {[1..n -> Candidate] : n \in 0..MaxCands}

\* the answers of at most one result
ShortLists == {l \in CandLists : Len(l) <= 1}

\* re.search(r"S\d{2}E\d{2}", name, re.I)
HasSxxExx(name) == name \in {"Other S01E01", "Show S01E01"}

\* re.search(re.escape(serie.title), name, re.I), the title being "Show"
HasTitle(name) == name \in {"Show S01E01"}


(* --------------------------- pure functions --------------------------- *)
\* a season the library holds nothing of
Unowned(o, season) == \A e \in o : e[1] # season

\* variant of Todo: the subtraction is left out
TodoAll(o, d) == d

\* variant of Todo: the missing episodes of a season the library holds
\* nothing of are replaced by one unit for the season, <<season, 0>>
TodoWithPacks(o, d) ==
    {e \in d \ o : ~Unowned(o, e[1])}
        \cup {<<e[1], 0>> : e \in {x \in d \ o : Unowned(o, x[1])}}

\* todo = imdb_eps - kodi_eps; Serie.to_download before sorting
Todo(o, d) == d \ o

\* the least key of a non-empty set: the head of sorted(...)
MinKey(S) == CHOOSE a \in S : \A b \in S : a = b \/ Less(a, b)

\* The episodes the for-loop may take next from the remaining set t.  The
\* root driver iterates sorted(...); the processor iterates a Python set,
\* whose order the language leaves to the implementation.
NextChoices(drv, t) == IF drv = "root" THEN {MinKey(t)} ELSE t

\* the test a search result must pass to be handed to qBittorrent
Acceptable(drv, film, name) ==
    IF film THEN name # ""
    ELSE IF drv = "processor" THEN name # "" /\ HasSxxExx(name)
    ELSE name # "No results returned" /\ HasSxxExx(name) /\ HasTitle(name)

\* variant of FirstAcceptable: the acceptable result with the most seeders,
\* the earliest of them on a tie
MostSeeded(drv, film, l) ==
    LET hits == {i \in DOMAIN l : Acceptable(drv, film, l[i].name)}
    IN  IF hits = {} THEN 0
        ELSE CHOOSE i \in hits :
                \A j \in hits : \/ l[j].seeders < l[i].seeders
                                \/ (l[j].seeders = l[i].seeders /\ i <= j)

\* variant of FirstAcceptable: the first result is taken without the name test
FirstResult(drv, film, l) == IF l = <<>> THEN 0 ELSE 1

\* the inner for-loop over the results of one query: position of the result
\* at which the loop breaks, 0 if it runs to the end
FirstAcceptable(drv, film, l) ==
    LET hits == {i \in DOMAIN l : Acceptable(drv, film, l[i].name)}
    IN  IF hits = {} THEN 0 ELSE CHOOSE i \in hits : \A j \in hits : i <= j

\* the processor's unqualified first query: only the first result is looked at
BaseValid(l) == l # <<>> /\ HasSxxExx(l[1].name)

\* variant of FirstTier: the walk starts at the second quality
FirstTierSecond(drv, film) == IF drv = "processor" /\ ~film THEN 0 ELSE 2

\* the tier the walk of one unit starts with; 0 is the processor's
\* unqualified query, which precedes its quality list
FirstTier(drv, film) == IF drv = "processor" /\ ~film THEN 0 ELSE 1

\* the next entry of the quality list
NextTier(t) == t + 1

(* ----------------------- the metadata provider ------------------------ *)
\* The "releaseDate" of an episode record: absent, a date that is d days
\* after the day of the run, or fields datetime.date() does not accept.
ReleaseDates ==
    {[kind |-> "none", day |-> 0], [kind |-> "invalid", day |-> 0]}
        \cup {[kind |-> "date", day |-> d] : d \in {0 - 1, 0}}

\* an episode record of a page; season or episode 0 is a missing field
MetaRecords == [season : 0..2, episode : 0..1, rd : ReleaseDates]

\* the "episodes" of one answer, of at most one record
Pages == {{}} \cup {{r} : r \in MetaRecords}

\* the values of seasons_filter; None and the empty list are both {}
Filters == SUBSET (1..2)

\* yesterday = (now - timedelta(days=1)).date(), the day of the run being 0
Yesterday == 0 - 1

\* variant of Kept: the release date is compared with the day of the run
KeptUntilToday(r, f) ==
    IF r.season = 0 \/ r.episode = 0 THEN FALSE
    ELSE IF f # {} /\ r.season \notin f THEN FALSE
    ELSE IF r.rd.kind = "none" THEN FALSE
    ELSE IF r.rd.kind = "invalid" THEN FALSE
    ELSE r.rd.day <= 0

\* the body of the loop over the episodes of a page: whether the record
\* reaches episodes.add
Kept(r, f) ==
    IF r.season = 0 \/ r.episode = 0 THEN FALSE          \* continue
    ELSE IF f # {} /\ r.season \notin f THEN FALSE       \* continue
    ELSE IF r.rd.kind = "none" THEN FALSE                \* if rd:
    ELSE IF r.rd.kind = "invalid" THEN FALSE             \* except: pass
    ELSE r.rd.day <= Yesterday

\* what one page adds to episodes
PageEpisodes(page, f) == {<<r.season, r.episode>> : r \in {x \in page : Kept(x, f)}}

(* ------------------------------- state -------------------------------- *)
VARIABLES
    driver,     \* which of the two programs runs
    useMysql,   \* USE_MYSQL / MYSQL_ENABLED
    pc,         \* "load", "entry" (series loop), "episode", "query", "submit",
                \* "films" (film loop), "done", "fatal"
    fatal,      \* why the run ended before its loop: "none", "config", "library"
    nSeries,    \* series entries of the loaded catalog
    nFilms,     \* film entries of the loaded catalog
    idx,        \* the entry the driver's loop is at (series first, then films)
    visited,    \* entries the driver has called process_* for
    entryErr,   \* entries whose processing raised to the driver
    result,     \* how the current or last entry ended
    store,      \* state of the library database when the entry read it
    owned,      \* kodi_eps / kodi_episodes
    desired,    \* imdb_eps / all_episodes
    todo,       \* episodes the for-loop has not taken yet
    processed,  \* episodes the for-loop has taken, in order
    ep,         \* the episode being resolved, NoEp for a film
    tier,       \* the quality being queried
    retries,    \* recursive calls of search_tpb for the current query
    tierLog,    \* the qualities queried for the unit, with what each gave
    cands,      \* the results the candidate was taken from
    pick,       \* position in cands of the candidate handed to qBittorrent
    outcome,    \* what the log records for the unit: "added", "notfound"
    sink,       \* what qBittorrent answered for the unit
    usable,     \* observed: an answer of search_tpb for the unit held a result
                \* that passes the unit's name test
    submits,    \* observed: calls of add_magnet_to_qbittorrent for the unit
    metaFilter, \* seasons_filter; {} is None or an empty list
    metaPages,  \* requests get_series_episodes has made
    metaToken,  \* whether page_token holds a token
    metaSeen,   \* observed: the episode records of the pages received
    metaErr     \* whether the function's handler caught an exception

vars == <<driver, useMysql, pc, fatal, nSeries, nFilms, idx, visited, entryErr,
          result, store, owned, desired, todo, processed, ep, tier, retries,
          tierLog, cands, pick, outcome, sink, usable, submits,
          metaFilter, metaPages, metaToken, metaSeen, metaErr>>

catalogVars == <<driver, useMysql, fatal, nSeries, nFilms>>
entryVars == <<idx, visited, entryErr, result>>
seriesVars == <<store, owned, desired, todo, processed>>
unitVars == <<ep, tier, retries, tierLog, cands, pick, outcome, sink, usable,
              submits>>
metaVars == <<metaFilter, metaPages, metaToken, metaSeen, metaErr>>

IsFilm == idx > nSeries

Init ==
    /\ driver \in Drivers
    /\ useMysql \in BOOLEAN
    /\ pc = "load"
    /\ fatal = "none"
    /\ nSeries = 0
    /\ nFilms = 0
    /\ idx = 1
    /\ visited = {}
    /\ entryErr = {}
    /\ result = "none"
    /\ store = "none"
    /\ owned = {}
    /\ desired = {}
    /\ todo = {}
    /\ processed = <<>>
    /\ ep = NoEp
    /\ tier = 0
    /\ retries = 0
    /\ tierLog = <<>>
    /\ cands = <<>>
    /\ pick = 0
    /\ outcome = "none"
    /\ sink = "none"
    /\ usable = FALSE
    /\ submits = 0
    /\ metaFilter = {}
    /\ metaPages = 0
    /\ metaToken = FALSE
    /\ metaSeen = {}
    /\ metaErr = FALSE


(* ------------------------ the library database ------------------------ *)
\* Whether the series has a Kodi id when get_existing_episodes is called.
\* The processor takes entry["kodi_id"] and otherwise asks
\* get_kodi_id_from_imdb, which answers None on any database error; the
\* root driver takes the id from the table it read at start-up.
KodiId(drv, cfgId, up, lookup) ==
    IF drv = "processor" THEN cfgId \/ (useMysql /\ up /\ lookup)
    ELSE useMysql /\ lookup

\* get_existing_episodes: the empty set without a database or an id, the
\* stored episodes otherwise; connecting to a database that is down raises
GetExistingEpisodes(id, up, db) ==
    IF ~useMysql \/ ~id THEN [ok |-> TRUE, eps |-> {}]
    ELSE IF up THEN [ok |-> TRUE, eps |-> db]
    ELSE [ok |-> FALSE, eps |-> {}]

\* what the episode table can hold for the series; it is read only when the
\* database is configured, reachable and the series has an id
StoredEpisodes(id, up) ==
    IF useMysql /\ id /\ up THEN SUBSET EpisodeKeys ELSE {{}}

StoreState(up) ==
    IF ~useMysql THEN "unconfigured" ELSE IF up THEN "up" ELSE "down"

(* ----------------------------- qBittorrent ---------------------------- *)
SinkAnswers == {"ok", "rejected", "loginfail"}

\* add_magnet_to_qbittorrent: a refused login raises in both drivers; a
\* non-200 answer to torrents/add raises in the root driver and is only
\* logged in the processor
SinkRaises(drv, ans) ==
    ans = "loginfail" \/ (drv = "root" /\ ans = "rejected")

(* ------------------------------ helpers ------------------------------- *)
\* the variables of one unit, but ep, as the unit leaves them
CloseUnit(o, s) ==
    /\ outcome' = o
    /\ sink' = s
    /\ tier' = 0
    /\ retries' = 0
    /\ tierLog' = <<>>
    /\ cands' = <<>>
    /\ pick' = 0

\* an exception leaves process_series / process_film / Serie() and is
\* caught by the driver's per-entry handler, which goes on to the next entry
Raise(kind) ==
    /\ pc' = (IF IsFilm THEN "films" ELSE "entry")
    /\ idx' = idx + 1
    /\ entryErr' = entryErr \cup {idx}
    /\ result' = kind

\* the top of the loop body for one unit: found = False
ResetUnit(e, t) ==
    /\ ep' = e
    /\ tier' = t
    /\ retries' = 0
    /\ tierLog' = <<>>
    /\ cands' = <<>>
    /\ pick' = 0
    /\ outcome' = "none"
    /\ sink' = "none"
    /\ usable' = FALSE
    /\ submits' = 0

\* variant of UnitEnd: the loop over the qualities is not left after a
\* result was handed to qBittorrent, the next quality is queried
UnitEndNoBreak(o, s) ==
    IF o = "added" /\ NextTier(tier) <= MaxTiers
    THEN /\ outcome' = o
         /\ sink' = s
         /\ tier' = NextTier(tier)
         /\ retries' = 0
         /\ cands' = <<>>
         /\ pick' = 0
         /\ pc' = "query"
         /\ UNCHANGED <<entryVars, tierLog>>
    ELSE /\ CloseUnit(o, s)
         /\ IF IsFilm
            THEN /\ pc' = "films"
                 /\ idx' = idx + 1
                 /\ result' = "finished"
                 /\ UNCHANGED <<visited, entryErr>>
            ELSE /\ pc' = "episode"
                 /\ UNCHANGED entryVars

\* the unit is over without an exception: the next episode of the series,
\* or the next entry after a film
UnitEnd(o, s) ==
    /\ CloseUnit(o, s)
    /\ IF IsFilm
       THEN /\ pc' = "films"
            /\ idx' = idx + 1
            /\ result' = "finished"
            /\ UNCHANGED <<visited, entryErr>>
       ELSE /\ pc' = "episode"
            /\ UNCHANGED entryVars

\* a result of the list passes the name test of the unit
HasUsable(l) == \E i \in DOMAIN l : Acceptable(driver, IsFilm, l[i].name)

\* what the caller of search_tpb does with the list l it returned
HandleResults(l) ==
    /\ usable' = (usable \/ HasUsable(l))
    /\ UNCHANGED submits
    /\ IF tier = 0
       THEN IF BaseValid(l)
            THEN /\ tier' = 1
                 /\ retries' = 0
                 /\ UNCHANGED <<pc, entryVars, tierLog, cands, pick, outcome, sink>>
            ELSE UnitEnd("notfound", sink)
       ELSE LET k == FirstAcceptable(driver, IsFilm, l)
            IN  IF k # 0
                THEN /\ tierLog' = Append(tierLog, [t |-> tier, hit |-> TRUE])
                     /\ cands' = l
                     /\ pick' = k
                     /\ pc' = "submit"
                     /\ retries' = 0
                     /\ UNCHANGED <<entryVars, tier, outcome, sink>>
                ELSE IF NextTier(tier) <= MaxTiers
                THEN /\ tierLog' = Append(tierLog, [t |-> tier, hit |-> FALSE])
                     /\ tier' = NextTier(tier)
                     /\ retries' = 0
                     /\ UNCHANGED <<pc, entryVars, cands, pick, outcome, sink>>
                ELSE UnitEnd("notfound", sink)

(* ------------------------------ actions ------------------------------- *)
\* run_all_searches line 366 / get_series_to_process: read the catalog
LoadCatalog ==
    /\ pc = "load"
    /\ \E file \in {"ok", "missing", "malformed"}, up \in BOOLEAN,
          ns \in 0..MaxSeries :
          IF driver = "root" /\ useMysql /\ ~up
          THEN \* get_series_from_kodi_mysql cannot connect
               /\ pc' = "fatal"
               /\ fatal' = "library"
               /\ UNCHANGED nSeries
          ELSE IF file = "malformed" \/ (file = "missing" /\ driver = "processor")
          THEN /\ pc' = "fatal"
               /\ fatal' = "config"
               /\ UNCHANGED nSeries
          ELSE /\ pc' = "entry"
               /\ fatal' = "none"
               /\ nSeries' = (IF file = "missing" THEN 0 ELSE ns)
    /\ UNCHANGED <<metaVars, driver, useMysql, nFilms, entryVars, seriesVars,
                   unitVars>>

\* the driver calls process_series (processor) or Serie() and process_series
\* (root) for the next series entry
StartSeries ==
    /\ pc = "entry"
    /\ idx <= nSeries
    /\ visited' = visited \cup {idx}
    /\ \E cfgId \in BOOLEAN, up \in BOOLEAN, lookup \in BOOLEAN :
          LET id == KodiId(driver, cfgId, up, lookup)
          IN  \E db \in StoredEpisodes(id, up) :
                 LET r == GetExistingEpisodes(id, up, db)
                 IN  /\ store' = StoreState(up)
                     /\ owned' = r.eps
                     /\ processed' = <<>>
                     /\ IF r.ok
                        THEN /\ \E d \in SUBSET EpisodeKeys :
                                   /\ desired' = d
                                   /\ todo' = Todo(r.eps, d)
                             /\ pc' = "episode"
                             /\ result' = "running"
                             /\ UNCHANGED <<idx, entryErr>>
                        ELSE /\ desired' = {}
                             /\ todo' = {}
                             /\ Raise("store_error")
    /\ ResetUnit(NoEp, 0)
    /\ UNCHANGED <<metaVars, catalogVars>>

\* for season, episode in todo / in serie.to_download: the next episode
NextEpisode ==
    /\ pc = "episode"
    /\ todo # {}
    /\ \E e \in NextChoices(driver, todo) :
          /\ todo' = todo \ {e}
          /\ processed' = Append(processed, e)
          /\ ResetUnit(e, FirstTier(driver, FALSE))
    /\ pc' = "query"
    /\ UNCHANGED <<metaVars, catalogVars, entryVars, store, owned, desired>>

\* the for-loop over the episodes is exhausted: process_series returns
EndSeries ==
    /\ pc = "episode"
    /\ todo = {}
    /\ pc' = "entry"
    /\ idx' = idx + 1
    /\ result' = "finished"
    /\ store' = "none"
    /\ owned' = {}
    /\ desired' = {}
    /\ processed' = <<>>
    /\ ResetUnit(NoEp, 0)
    /\ UNCHANGED <<metaVars, catalogVars, visited, entryErr, todo>>

\* the loop over the series is exhausted; the driver turns to
\* config.get("films", []), which the root driver does not have
EndSeriesLoop ==
    /\ pc = "entry"
    /\ idx > nSeries
    /\ pc' = "films"
    /\ nFilms' \in (IF driver = "root" THEN {0} ELSE 0..MaxFilms)
    /\ result' = "none"
    /\ store' = "none"
    /\ owned' = {}
    /\ desired' = {}
    /\ todo' = {}
    /\ processed' = <<>>
    /\ ResetUnit(NoEp, 0)
    /\ UNCHANGED <<metaVars, driver, useMysql, fatal, nSeries, idx, visited,
                   entryErr>>

\* process_film: a film the library has is left alone, any other is one unit
StartFilm ==
    /\ pc = "films"
    /\ idx <= nSeries + nFilms
    /\ visited' = visited \cup {idx}
    /\ \E present \in BOOLEAN :
          IF useMysql /\ present
          THEN /\ pc' = "films"
               /\ idx' = idx + 1
               /\ result' = "present"
               /\ ResetUnit(NoEp, 0)
          ELSE /\ pc' = "query"
               /\ result' = "running"
               /\ ResetUnit(NoEp, FirstTier(driver, TRUE))
               /\ UNCHANGED idx
    /\ store' = "none"
    /\ owned' = {}
    /\ desired' = {}
    /\ todo' = {}
    /\ processed' = <<>>
    /\ UNCHANGED <<metaVars, catalogVars, entryErr>>

\* search_tpb gets HTTP 429, sleeps and calls itself
RateLimited ==
    /\ pc = "query"
    /\ retries < RecursionLimit
    /\ retries' = retries + 1
    /\ UNCHANGED <<metaVars, catalogVars, pc, entryVars, seriesVars, ep, tier,
                   tierLog, cands, pick, outcome, sink, usable, submits>>

\* HTTP 429 at the recursion limit: the RecursionError is caught by
\* search_tpb's handler, which returns []
RecursionExhausted ==
    /\ pc = "query"
    /\ retries = RecursionLimit
    /\ HandleResults(<<>>)
    /\ UNCHANGED <<metaVars, catalogVars, seriesVars, ep>>

\* the request raises, or the answer is not a JSON list: search_tpb returns []
SearchFails ==
    /\ pc = "query"
    /\ HandleResults(<<>>)
    /\ UNCHANGED <<metaVars, catalogVars, seriesVars, ep>>

\* search_tpb returns the provider's list
SearchReturns ==
    /\ pc = "query"
    /\ \E l \in ShortLists : HandleResults(l)
    /\ UNCHANGED <<metaVars, catalogVars, seriesVars, ep>>

\* add_magnet_to_qbittorrent for the candidate, and the lines after it
Submit ==
    /\ pc = "submit"
    /\ \E ans \in SinkAnswers :
          IF SinkRaises(driver, ans)
          THEN /\ Raise("sink_error")
               /\ CloseUnit(outcome, ans)
               /\ UNCHANGED visited
          ELSE UnitEnd("added", ans)
    /\ submits' = submits + 1
    /\ UNCHANGED <<metaVars, catalogVars, seriesVars, ep, usable>>

\* the driver's loops are over
Finish ==
    /\ pc = "films"
    /\ idx > nSeries + nFilms
    /\ pc' = "done"
    /\ result' = "none"
    /\ store' = "none"
    /\ owned' = {}
    /\ desired' = {}
    /\ todo' = {}
    /\ processed' = <<>>
    /\ ResetUnit(NoEp, 0)
    /\ UNCHANGED <<metaVars, catalogVars, idx, visited, entryErr>>

Next ==
    \/ LoadCatalog
    \/ StartSeries
    \/ NextEpisode
    \/ EndSeries
    \/ EndSeriesLoop
    \/ StartFilm
    \/ RateLimited
    \/ RecursionExhausted
    \/ SearchFails
    \/ SearchReturns
    \/ Submit
    \/ Finish

Spec == Init /\ [][Next]_vars


(* ---------------- the walk of one unit, with full lists ---------------- *)
\* A run that has reached the first quality query of a unit: a missing
\* episode of a one-series catalog (in the processor after its unqualified
\* query was answered with an episode release), or the processor's film.
InitSelect ==
    /\ driver \in Drivers
    /\ useMysql = FALSE
    /\ pc = "query"
    /\ fatal = "none"
    /\ \E film \in (IF driver = "processor" THEN BOOLEAN ELSE {FALSE}) :
          /\ nSeries = (IF film THEN 0 ELSE 1)
          /\ nFilms = (IF film THEN 1 ELSE 0)
          /\ store = (IF film THEN "none" ELSE "unconfigured")
          /\ desired = (IF film THEN {} ELSE {KeyOf(1)})
          /\ processed = (IF film THEN <<>> ELSE <<KeyOf(1)>>)
          /\ ep = (IF film THEN NoEp ELSE KeyOf(1))
    /\ idx = 1
    /\ visited = {1}
    /\ entryErr = {}
    /\ result = "running"
    /\ owned = {}
    /\ todo = {}
    /\ tier = 1
    /\ retries = 0
    /\ tierLog = <<>>
    /\ cands = <<>>
    /\ pick = 0
    /\ outcome = "none"
    /\ sink = "none"
    /\ usable = (driver = "processor" /\ nSeries = 1)
    /\ submits = 0
    /\ metaFilter = {}
    /\ metaPages = 0
    /\ metaToken = FALSE
    /\ metaSeen = {}
    /\ metaErr = FALSE

\* search_tpb returns the provider's list, of any length up to MaxCands
SearchReturnsFull ==
    /\ pc = "query"
    /\ \E l \in CandLists : HandleResults(l)
    /\ UNCHANGED <<metaVars, catalogVars, seriesVars, ep>>

NextSelect ==
    \/ SearchReturnsFull
    \/ Submit

SpecSelect == InitSelect /\ [][NextSelect]_vars

\* the states InitSelect starts from are states of a full run
InitSelectReached ==
    /\ pc = "query" /\ tier = 1 /\ retries = 0 /\ tierLog = <<>>
    /\ ~useMysql /\ idx = 1 /\ entryErr = {} /\ owned = {} /\ todo = {}
    /\ \/ nSeries = 1 /\ desired = {KeyOf(1)} /\ ep = KeyOf(1)
       \/ nSeries = 0 /\ nFilms = 1 /\ ep = NoEp


(* --------------- get_series_episodes, page by page -------------------- *)
\* A run that has entered get_series_episodes / get_all_episodes_imdb for
\* the first series of its catalog, before the first request.
InitEpisodes ==
    /\ driver \in Drivers
    /\ useMysql = FALSE
    /\ pc = "fetch"
    /\ fatal = "none"
    /\ nSeries = 1
    /\ nFilms = 0
    /\ idx = 1
    /\ visited = {1}
    /\ entryErr = {}
    /\ result = "none"
    /\ store = "unconfigured"
    /\ owned = {}
    /\ desired = {}
    /\ todo = {}
    /\ processed = <<>>
    /\ ep = NoEp
    /\ tier = 0
    /\ retries = 0
    /\ tierLog = <<>>
    /\ cands = <<>>
    /\ pick = 0
    /\ outcome = "none"
    /\ sink = "none"
    /\ usable = FALSE
    /\ submits = 0
    /\ metaFilter \in Filters
    /\ metaPages = 0
    /\ metaToken = FALSE
    /\ metaSeen = {}
    /\ metaErr = FALSE

\* if not imdb_id: return set()
NoImdbId ==
    /\ pc = "fetch"
    /\ metaPages = 0
    /\ pc' = "fetched"
    /\ desired' = {}
    /\ UNCHANGED <<metaVars, catalogVars, entryVars, store, owned, todo,
                   processed, unitVars>>

\* one turn of the while-loop: the request is answered with a page, its
\* episodes are filtered into the set, and the loop ends unless the page
\* has a nextPageToken; the provider's last page has none
FetchPage ==
    /\ pc = "fetch"
    /\ metaPages < MaxPages
    /\ \E page \in Pages,
          tok \in (IF metaPages + 1 < MaxPages THEN BOOLEAN ELSE {FALSE}) :
          /\ desired' = desired \cup PageEpisodes(page, metaFilter)
          /\ metaSeen' = metaSeen \cup page
          /\ metaToken' = tok
          /\ pc' = (IF tok THEN "fetch" ELSE "fetched")
    /\ metaPages' = metaPages + 1
    /\ UNCHANGED <<metaFilter, metaErr, catalogVars, entryVars, store, owned,
                   todo, processed, unitVars>>

\* the request or raise_for_status raises: the processor logs and returns
\* the episodes it has, the root driver returns set()
FetchFails ==
    /\ pc = "fetch"
    /\ metaPages < MaxPages
    /\ metaPages' = metaPages + 1
    /\ metaErr' = TRUE
    /\ pc' = "fetched"
    /\ desired' = (IF driver = "processor" THEN desired ELSE {})
    /\ UNCHANGED <<metaFilter, metaToken, metaSeen, catalogVars, entryVars,
                   store, owned, todo, processed, unitVars>>

NextEpisodes ==
    \/ NoImdbId
    \/ FetchPage
    \/ FetchFails

SpecEpisodes == InitEpisodes /\ [][NextEpisodes]_vars


(* ------------------------------- claims ------------------------------- *)
\* the episodes the series loop has taken so far
ProcessedSet == {processed[i] : i \in DOMAIN processed}

\* the series loop is exhausted and process_series is about to return
LoopExhausted == pc = "episode" /\ todo = {}

\* C1: the episode a search or a submission is made for, and every episode
\* the series loop has taken, is desired and not owned; an episode that is
\* both desired and owned is never searched for.
C1_OnlyMissingSearched ==
    /\ ProcessedSet \subseteq desired \ owned
    /\ (pc \in {"query", "submit"} /\ ~IsFilm) => (ep \in desired /\ ep \notin owned)

\* C1 witness: a search is under way for a series of which the library
\* already holds a desired episode.
C1_Witness ==
    /\ pc = "query"
    /\ ep \in desired
    /\ owned \cap desired # {}

\* C2 (as claimed): the series loop takes the episodes in ascending
\* (season, episode) order, none twice, and when it is exhausted it has
\* taken exactly desired - owned.
C2_AscendingExactlyOnce ==
    /\ \A i, j \in DOMAIN processed : i < j => Less(processed[i], processed[j])
    /\ LoopExhausted => ProcessedSet = desired \ owned

\* C3 (as claimed): an error in one unit does not abort the other episodes
\* of the series: a series the sink's error has ended has no episode left
\* that was never searched for.
C3_UnitErrorIsolated == result = "sink_error" => todo = {}

\* C4 (as claimed): a run that ends has visited every entry of the catalog,
\* and the only thing that ends a run early is the catalog configuration
\* failing to load.
C4_OnlyConfigFatal ==
    /\ pc = "done" => visited = 1..(nSeries + nFilms)
    /\ pc = "fatal" => fatal = "config"

\* C5 (as claimed): a query answered with HTTP 429 is retried at most three
\* times.
C5_RetriesCapped == retries <= 3

\* C6 (as claimed): an episode whose submission qBittorrent rejected (login
\* refused, or a non-200 answer) is never recorded as added.
C6_RejectedNotAdded ==
    (ep # NoEp /\ sink \in {"rejected", "loginfail"}) => outcome # "added"

\* C7: the qualities are queried in list order, starting with the first; a
\* candidate is submitted for quality i only after every quality before i
\* gave no acceptable candidate, and no quality is queried after the one
\* that gave a candidate.
C7_TiersInOrder ==
    /\ \A i \in DOMAIN tierLog : tierLog[i].t = i
    /\ \A i \in DOMAIN tierLog : tierLog[i].hit => i = Len(tierLog)
    /\ (pc = "query" /\ tier >= 1) => Len(tierLog) = tier - 1
    /\ pc = "submit" =>
          /\ Len(tierLog) = tier
          /\ tierLog[tier].hit
          /\ \A j \in 1..(tier - 1) : ~tierLog[j].hit

\* C7 witness: a candidate is being submitted for the second quality, the
\* first having given none.
C7_Witness ==
    /\ pc = "submit"
    /\ tier = 2
    /\ Len(tierLog) = 2
    /\ ~tierLog[1].hit

C9_UnknownOwnsNothing ==
    store \in {"down", "unconfigured"} => (result # "store_error" /\ owned = {})

\* a season with a missing episode of which the library holds nothing
PackEligible(season) ==
    /\ \E e \in desired \ owned : e[1] = season
    /\ Unowned(owned, season)

UnitOver ==
    \/ pc = "episode" /\ ep # NoEp
    \/ pc = "films" /\ result = "finished" /\ outcome # "none"

Eligible(recs, f) ==
    {<<r.season, r.episode>> :
        r \in {x \in recs : /\ x.season # 0 /\ x.episode # 0
                            /\ (f = {} \/ x.season \in f)
                            /\ x.rd.kind = "date" /\ x.rd.day <= Yesterday}}

\* C12: pages are requested as long as the last one carried a
\* continuation token, and when a page without one has been read (no
\* request having failed) the desired set holds exactly the episodes of the
\* pages read that have a season and an episode number, pass the season
\* filter when one is set, and have a release date on or before yesterday;
\* at no time, after a failed request included, is an episode desired that
\* no record gives such a release date.
C12_DesiredFromPages ==
    /\ desired \subseteq Eligible(metaSeen, metaFilter)
    /\ (pc = "fetch" /\ metaPages > 0) => metaToken
    /\ (pc = "fetched" /\ ~metaErr)
          => (~metaToken /\ desired = Eligible(metaSeen, metaFilter))

\* two pages were read, the first with a token; an episode released
\* yesterday is desired, one released today is not
C12_Witness ==
    /\ pc = "fetched"
    /\ ~metaErr
    /\ metaPages = 2
    /\ desired # {}
    /\ \E r \in metaSeen : /\ r.rd = [kind |-> "date", day |-> 0]
                            /\ r.season # 0 /\ r.episode # 0
                            /\ <<r.season, r.episode>> \notin desired

\* C13: add_magnet_to_qbittorrent is called at most once for a unit, an
\* episode or a film, and once it has been called for a unit no query is
\* made for that unit and no second result is about to be handed over.
C13_AtMostOneSubmission ==
    /\ submits <= 1
    /\ submits >= 1 => pc \notin {"query", "submit"}

\* a result of the first quality was handed to qBittorrent for an episode,
\* the second quality was never queried, and the loop is at the next episode
C13_Witness ==
    /\ pc = "episode"
    /\ ep # NoEp
    /\ submits = 1
    /\ outcome = "added"
    /\ todo # {}

====
